---- MODULE Spec2Model ----
(***************************************************************************)
(* Model of tensorflow/contrib/framework/python/framework/tensor_util.py:  *)
(* the dtype/shape validators is_numeric_tensor, _assert_same_base_type,   *)
(* assert_same_float_dtype, assert_scalar_int and the local_variable       *)
(* factory, over the graph's collections.                                  *)
(*                                                                         *)
(* Python values are records tagged with their class in the field pytype;  *)
(* an attribute of an object is a field of its record, so hasattr(o, 'a')  *)
(* is "a" \in DOMAIN o.  A call's result is Return(value) or Raise(...).   *)
(***************************************************************************)
EXTENDS Integers, Sequences, FiniteSets, TLC

\* Longest items sequence a caller passes.
MaxLen == 3
\* Most variables created in one graph.
MaxVars == 1

----------------------------------------------------------------------------
(* Python values *)

None == [pytype |-> "NoneType"]

PyStr(s) == [pytype |-> "str", s |-> s]

PyList(elts) == [pytype |-> "list", elts |-> elts]

PyInt(n) == [pytype |-> "int", n |-> n]

\* Python's truth value of an object: None, '' and [] are false; an object
\* whose class defines neither __bool__ nor __len__ (a DType) is true.
Truthy(v) ==
  CASE v.pytype = "NoneType" -> FALSE
    [] v.pytype = "str" -> v.s # ""
    [] v.pytype = "list" -> Len(v.elts) > 0
    [] v.pytype = "int" -> v.n # 0
    [] OTHER -> TRUE

HasAttr(obj, attr) == attr \in DOMAIN obj

Return(value) == [kind |-> "return", value |-> value]

\* raise exc(fmt % args)
Raise(exc, fmt, args) == [kind |-> "raise", exc |-> exc, fmt |-> fmt, args |-> args]

AttributeError(obj, attr) == Raise("AttributeError", "%s object has no attribute %s", <<obj.pytype, attr>>)

----------------------------------------------------------------------------
(* dtypes *)

DType(name, is_ref) == [pytype |-> "DType", name |-> name, is_ref |-> is_ref]

float32 == DType("float32", FALSE)
float64 == DType("float64", FALSE)
int8 == DType("int8", FALSE)
int16 == DType("int16", FALSE)
int32 == DType("int32", FALSE)
int64 == DType("int64", FALSE)
uint8 == DType("uint8", FALSE)
qint8 == DType("qint8", FALSE)
qint32 == DType("qint32", FALSE)
quint8 == DType("quint8", FALSE)
complex64 == DType("complex64", FALSE)
bool == DType("bool", FALSE)
string == DType("string", FALSE)
bfloat16 == DType("bfloat16", FALSE)
float32_ref == DType("float32", TRUE)
int32_ref == DType("int32", TRUE)

DTypeNames == {"float32", "float64", "int8", "int16", "int32", "int64", "uint8",
               "qint8", "qint32", "quint8", "complex64", "bool", "string", "bfloat16"}

AllDTypes == {DType(n, r) : n \in DTypeNames, r \in BOOLEAN}

\* DType.base_dtype: the non-reference dtype of the same kind.
base_dtype(dtype) == DType(dtype.name, FALSE)

\* DType.is_floating
is_floating(dtype) == dtype.name \in {"float32", "float64"}

\* DType.__ne__: dtypes differ when their kind or their reference-ness does.
dtype_ne(a, b) == a # b

----------------------------------------------------------------------------
(* graph items *)

\* TensorShape.ndims is None for an unknown rank: <<>> here, <<n>> for rank n.
UnknownRank == <<>>

Rank(n) == <<n>>

Tensor(dtype, name, ndims) ==
  [pytype |-> "Tensor", dtype |-> dtype, name |-> name, ndims |-> ndims, str |-> name]

\* The dtype of a Variable is the reference dtype of its kind.
VariableItem(dtype, name, ndims) ==
  [pytype |-> "Variable", dtype |-> dtype, name |-> name, ndims |-> ndims, str |-> name]

\* A SparseTensor has a dtype and no name.
SparseTensor(dtype, str) == [pytype |-> "SparseTensor", dtype |-> dtype, str |-> str]

NUMERIC_TYPES == {float32, float64, int8, int16, int32, int64, uint8, qint8, qint32,
                  quint8, complex64}

----------------------------------------------------------------------------
(* is_numeric_tensor *)

\* isinstance(obj, cls): no class of the model is a subclass of another.
isinstance(obj, cls) == obj.pytype = cls

\* The operands of the conjunction in the other order: the dtype is read first.
is_numeric_tensor_dtype_first(tensor) ==
  IF ~HasAttr(tensor, "dtype") THEN AttributeError(tensor, "dtype")
  ELSE Return(tensor.dtype \in NUMERIC_TYPES /\ isinstance(tensor, "Tensor"))

is_numeric_tensor(tensor) ==
  IF ~isinstance(tensor, "Tensor") THEN Return(FALSE)
  ELSE IF ~HasAttr(tensor, "dtype") THEN AttributeError(tensor, "dtype")
  ELSE Return(tensor.dtype \in NUMERIC_TYPES)

----------------------------------------------------------------------------
(* _assert_same_base_type *)

\* item.name if hasattr(item, 'name') else str(item)
item_str(item) == IF HasAttr(item, "name") THEN PyStr(item.name) ELSE PyStr(item.str)

TypeMismatchFmt == "%s, type=%s, must be of the same type (%s)%s."

\* The ' as %s' part formatted whether or not an item set the expectation.
type_mismatch_always_as(item, item_type, expected_type, original_item_str) ==
  Raise("ValueError", TypeMismatchFmt,
        <<item_str(item), item_type, expected_type, <<" as %s", original_item_str>> >>)

Continue(expected_type, original_item_str) ==
  [kind |-> "continue", expected_type |-> expected_type,
   original_item_str |-> original_item_str]

\* The ValueError of a mismatch; its last argument is (' as %s' % original_item_str)
\* when original_item_str is true and '' otherwise.
type_mismatch(item, item_type, expected_type, original_item_str) ==
  Raise("ValueError", TypeMismatchFmt,
        <<item_str(item), item_type, expected_type,
          IF Truthy(original_item_str) THEN <<" as %s", original_item_str>> ELSE <<>> >>)

\* The item's dtype compared as it is, without .base_dtype.
loop_body_no_base_dtype(item, expected_type, original_item_str) ==
  IF item # None
  THEN IF ~HasAttr(item, "dtype") THEN AttributeError(item, "dtype")
       ELSE LET item_type == item.dtype IN
            IF ~Truthy(expected_type)
            THEN Continue(item_type, item_str(item))
            ELSE IF dtype_ne(expected_type, item_type)
                 THEN type_mismatch(item, item_type, expected_type, original_item_str)
                 ELSE Continue(expected_type, original_item_str)
  ELSE Continue(expected_type, original_item_str)

\* One iteration of the loop over items.
loop_body(item, expected_type, original_item_str) ==
  IF item # None
  THEN IF ~HasAttr(item, "dtype") THEN AttributeError(item, "dtype")
       ELSE LET item_type == base_dtype(item.dtype) IN
            IF ~Truthy(expected_type)
            THEN Continue(item_type, item_str(item))
            ELSE IF dtype_ne(expected_type, item_type)
                 THEN type_mismatch(item, item_type, expected_type, original_item_str)
                 ELSE Continue(expected_type, original_item_str)
  ELSE Continue(expected_type, original_item_str)

RECURSIVE for_item_break_on_none(_, _, _, _)
\* The loop left at the first None item instead of passing over it.
for_item_break_on_none(items, i, expected_type, original_item_str) ==
  IF i > Len(items) \/ items[i] = None THEN Return(expected_type)
  ELSE LET step == loop_body(items[i], expected_type, original_item_str) IN
       IF step.kind = "raise" THEN step
       ELSE for_item_break_on_none(items, i + 1, step.expected_type,
                                   step.original_item_str)

RECURSIVE for_item_in_items(_, _, _, _)
\* The loop from item i on: a raise ends it, its end returns expected_type.
for_item_in_items(items, i, expected_type, original_item_str) ==
  IF i > Len(items) THEN Return(expected_type)
  ELSE LET step == loop_body(items[i], expected_type, original_item_str) IN
       IF step.kind = "raise" THEN step
       ELSE for_item_in_items(items, i + 1, step.expected_type, step.original_item_str)

_assert_same_base_type(items, expected_type) ==
  for_item_in_items(items, 1, expected_type, None)

----------------------------------------------------------------------------
(* assert_same_float_dtype *)

NotFloatFmt == "Expected float, got %s."

\* The result returned without the is_floating test.
float_or_default_unchecked(dtype) ==
  IF ~Truthy(dtype) THEN Return(float32) ELSE Return(dtype)

\* No default: a missing dtype is an error.
float_or_default_required(dtype) ==
  IF ~Truthy(dtype) THEN Raise("ValueError", "Expected float, got %s.", <<dtype>>)
  ELSE IF ~is_floating(dtype) THEN Raise("ValueError", "Expected float, got %s.", <<dtype>>)
  ELSE Return(dtype)

\* The dtype the items and the argument resolve to, defaulted or tested.
float_or_default(dtype) ==
  IF ~Truthy(dtype) THEN Return(float32)
  ELSE IF ~is_floating(dtype) THEN Raise("ValueError", NotFloatFmt, <<dtype>>)
  ELSE Return(dtype)

\* The items compared with each other only: dtype is not handed on.
assert_same_float_dtype_unseeded(tensors, dtype) ==
  IF Truthy(tensors)
  THEN LET same == _assert_same_base_type(tensors.elts, None) IN
       IF same.kind = "raise" THEN same
       ELSE float_or_default(IF Truthy(dtype) THEN dtype ELSE same.value)
  ELSE float_or_default(dtype)

assert_same_float_dtype(tensors, dtype) ==
  IF Truthy(tensors)
  THEN LET same == _assert_same_base_type(tensors.elts, dtype) IN
       IF same.kind = "raise" THEN same ELSE float_or_default(same.value)
  ELSE float_or_default(dtype)

----------------------------------------------------------------------------
(* assert_scalar_int *)

WrongDtypeFmt == "Unexpected type %s for %s."

WrongShapeFmt == "Unexpected shape %s for %s."

\* The rank tested by its truth value: an unknown rank passes like rank 0.
assert_scalar_int_falsy_rank(tensor) ==
  IF ~HasAttr(tensor, "dtype") THEN AttributeError(tensor, "dtype")
  ELSE LET data_type == tensor.dtype IN
       IF base_dtype(data_type) \notin {int32, int64}
       THEN IF ~HasAttr(tensor, "name") THEN AttributeError(tensor, "name")
            ELSE Raise("ValueError", "Unexpected type %s for %s.",
                       <<data_type, PyStr(tensor.name)>>)
       ELSE IF ~HasAttr(tensor, "ndims") THEN AttributeError(tensor, "get_shape")
            ELSE LET ndims == tensor.ndims IN
                 IF ndims \notin {UnknownRank, Rank(0)}
                 THEN Raise("ValueError", "Unexpected shape %s for %s.",
                            <<ndims, PyStr(tensor.name)>>)
                 ELSE Return(tensor)

assert_scalar_int(tensor) ==
  IF ~HasAttr(tensor, "dtype") THEN AttributeError(tensor, "dtype")
  ELSE LET data_type == tensor.dtype IN
       IF base_dtype(data_type) \notin {int32, int64}
       THEN IF ~HasAttr(tensor, "name") THEN AttributeError(tensor, "name")
            ELSE Raise("ValueError", WrongDtypeFmt, <<data_type, PyStr(tensor.name)>>)
       ELSE IF ~HasAttr(tensor, "ndims") THEN AttributeError(tensor, "get_shape")
            ELSE LET ndims == tensor.ndims IN
                 IF ndims # Rank(0)
                 THEN Raise("ValueError", WrongShapeFmt, <<ndims, PyStr(tensor.name)>>)
                 ELSE Return(tensor)

----------------------------------------------------------------------------
(* variables.Variable and local_variable *)

VARIABLES_KEY == "variables"
TRAINABLE_VARIABLES == "trainable_variables"
LOCAL_VARIABLES == "local_variables"

GraphKeys == {VARIABLES_KEY, TRAINABLE_VARIABLES, LOCAL_VARIABLES}

RECURSIVE add_to_collections(_, _, _)
\* ops.add_to_collections(names, value): value is appended to each named collection.
add_to_collections(colls, names, value) ==
  IF names = <<>> THEN colls
  ELSE add_to_collections([colls EXCEPT ![Head(names)] = Append(@, value)],
                          Tail(names), value)

\* variables.Variable(initial_value, trainable, collections, validate_shape, name)
\* on graph g: the new variable and the graph after its registration.  With no
\* collections given the variable joins VARIABLES; a trainable one also joins
\* TRAINABLE_VARIABLES.
Variable(g, initial_value, trainable, collections, validate_shape, name) ==
  LET given == IF collections = None THEN <<VARIABLES_KEY>> ELSE collections.elts
      names == IF trainable /\ \A k \in DOMAIN given : given[k] # TRAINABLE_VARIABLES
               THEN Append(given, TRAINABLE_VARIABLES) ELSE given
      v == [pytype |-> "Variable", id |-> g.last_id + 1,
            initial_value |-> initial_value, trainable |-> trainable,
            validate_shape |-> validate_shape, name |-> name]
  IN [variable |-> v,
      graph |-> [collections |-> add_to_collections(g.collections, names, v),
                 last_id |-> g.last_id + 1]]

\* The collections argument left out: the constructor's default applies.
local_variable_default_collections(g, initial_value, validate_shape, name) ==
  Variable(g, initial_value, FALSE, None, validate_shape, name)

\* The trainable argument left out: the constructor's default, True, applies.
local_variable_trainable(g, initial_value, validate_shape, name) ==
  Variable(g, initial_value, TRUE, PyList(<<LOCAL_VARIABLES>>), validate_shape, name)

local_variable(g, initial_value, validate_shape, name) ==
  Variable(g, initial_value, FALSE, PyList(<<LOCAL_VARIABLES>>), validate_shape, name)

----------------------------------------------------------------------------
(* state *)

VARIABLES
  items,  \* the sequence of graph items (or None) the caller holds
  graph,  \* the default graph: its collections and the count of its variables
  last    \* the last call: the operation, its arguments and its outcome

vars == <<items, graph, last>>

\* The items callers build sequences from: tensors of two kinds, a variable
\* (reference dtype) of the first kind and a nameless sparse tensor.
ItemPool ==
  {Tensor(float32, "a:0", Rank(0)), Tensor(int32, "b:0", Rank(0)),
   VariableItem(float32_ref, "v:0", Rank(1)), SparseTensor(int32, "SparseTensor(c)")}

RECURSIVE SeqsUpTo(_, _)
SeqsUpTo(S, n) ==
  IF n = 0 THEN {<<>>}
  ELSE LET shorter == SeqsUpTo(S, n - 1) IN
       shorter \cup {Append(q, x) : q \in {r \in shorter : Len(r) = n - 1}, x \in S}

\* Every argument a caller may hand to a one-argument validator: a tensor or a
\* variable of every dtype and rank, a sparse tensor, a Python number, None.
TensorArgs ==
  {Tensor(d, "t:0", r) : d \in AllDTypes, r \in {UnknownRank, Rank(0), Rank(1), Rank(2)}}
  \cup {VariableItem(DType(n, TRUE), "w:0", r) : n \in DTypeNames, r \in {Rank(0), Rank(1)}}
  \cup {SparseTensor(d, "SparseTensor(s)") : d \in {float32, int32, string}}
  \cup {PyInt(0), PyInt(3), None}

\* The dtype arguments callers pass: none, a float, an integer, a reference.
DTypeArgs == {None, float32, int32, float32_ref}

NewGraph == [collections |-> [k \in GraphKeys |-> <<>>], last_id |-> 0]

NoCall == [op |-> "none"]

Init ==
  /\ items \in SeqsUpTo(ItemPool \cup {None}, MaxLen)
  /\ graph = NewGraph
  /\ last = NoCall

InitTensor ==
  /\ items \in {<<t>> : t \in TensorArgs}
  /\ graph = NewGraph
  /\ last = NoCall

----------------------------------------------------------------------------
(* calls *)

IsNumericTensor ==
  \E i \in DOMAIN items :
    /\ last' = [op |-> "is_numeric_tensor", tensor |-> items[i],
                outcome |-> is_numeric_tensor(items[i])]
    /\ UNCHANGED <<items, graph>>

AssertSameBaseType ==
  \E expected_type \in DTypeArgs :
    /\ last' = [op |-> "_assert_same_base_type", items |-> items,
                expected_type |-> expected_type,
                outcome |-> _assert_same_base_type(items, expected_type)]
    /\ UNCHANGED <<items, graph>>

AssertSameFloatDtype ==
  \E tensors \in {None, PyList(items)}, dtype \in DTypeArgs :
    /\ last' = [op |-> "assert_same_float_dtype", tensors |-> tensors, dtype |-> dtype,
                outcome |-> assert_same_float_dtype(tensors, dtype)]
    /\ UNCHANGED <<items, graph>>

AssertScalarInt ==
  \E i \in DOMAIN items :
    /\ last' = [op |-> "assert_scalar_int", tensor |-> items[i],
                outcome |-> assert_scalar_int(items[i])]
    /\ UNCHANGED <<items, graph>>

LocalVariable ==
  \E validate_shape \in BOOLEAN, name \in {None, PyStr("x")} :
    /\ graph.last_id < MaxVars
    /\ LET made == local_variable(graph, PyInt(0), validate_shape, name) IN
       /\ graph' = made.graph
       /\ last' = [op |-> "local_variable", validate_shape |-> validate_shape,
                   name |-> name, outcome |-> Return(made.variable)]
    /\ UNCHANGED items

Next ==
  \/ IsNumericTensor
  \/ AssertSameBaseType
  \/ AssertSameFloatDtype
  \/ AssertScalarInt
  \/ LocalVariable

Spec == Init /\ [][Next]_vars

SpecTensor == InitTensor /\ [][Next]_vars

----------------------------------------------------------------------------
(* properties *)

NonNone(s) == {i \in DOMAIN s : s[i] # None}

BaseOf(item) == base_dtype(item.dtype)

NotNone(x) == x # None

\* The least member of a non-empty set of indices.
Least(S) == CHOOSE i \in S : \A j \in S : i <= j

DisplayName(item) ==
  IF "name" \in DOMAIN item THEN PyStr(item.name) ELSE PyStr(item.str)

IsValueError(o, fmt) == o.kind = "raise" /\ o.exc = "ValueError" /\ o.fmt = fmt

IsTypeMismatch(o) == IsValueError(o, TypeMismatchFmt)

IsNotFloatType(o) == IsValueError(o, NotFloatFmt)

\* C1: with no expected_type, _assert_same_base_type on items whose non-None
\* items all have base dtype D returns D and raises nothing, and the result is
\* the result on the same items with the None entries taken out.
C1_SameBaseTypeReturned ==
  (last.op = "_assert_same_base_type" /\ last.expected_type = None) =>
    /\ \A D \in AllDTypes :
         (/\ NonNone(last.items) # {}
          /\ \A i \in NonNone(last.items) : BaseOf(last.items[i]) = D)
         => last.outcome = Return(D)
    /\ (\A i, j \in NonNone(last.items) : BaseOf(last.items[i]) = BaseOf(last.items[j]))
         => last.outcome = _assert_same_base_type(SelectSeq(last.items, NotNone), None)

\* A call without expected_type on a tensor and a variable of one kind (dtype and
\* reference dtype) with a None entry among them returned their base dtype.
C1_Witness ==
  /\ last.op = "_assert_same_base_type"
  /\ last.expected_type = None
  /\ \E i, j, k \in DOMAIN last.items :
       /\ last.items[i] = None
       /\ last.items[j] # None /\ last.items[k] # None
       /\ last.items[j].dtype = float32 /\ last.items[k].dtype = float32_ref
  /\ last.outcome = Return(float32)

\* C2: _assert_same_base_type on items holding two non-None items of different
\* base dtypes raises the type mismatch ValueError, wherever the two items and
\* the None entries are and whether or not expected_type was given.
C2_DifferingTypesRaise ==
  (/\ last.op = "_assert_same_base_type"
   /\ \E i, j \in NonNone(last.items) : BaseOf(last.items[i]) # BaseOf(last.items[j]))
  => IsTypeMismatch(last.outcome)

\* Two items of different base dtypes with a None between them were passed
\* together with an expected_type, and the call raised.
C2_Witness ==
  /\ last.op = "_assert_same_base_type"
  /\ last.expected_type # None
  /\ Len(last.items) = 3
  /\ last.items[1] # None /\ last.items[2] = None /\ last.items[3] # None
  /\ BaseOf(last.items[1]) # BaseOf(last.items[3])
  /\ IsTypeMismatch(last.outcome)

\* C3: assert_same_float_dtype with a non-empty items sequence and a dtype raises
\* the type mismatch when a non-None item's base dtype is not that dtype, and
\* returns the dtype when it is floating and is every non-None item's base dtype.
C3_ExplicitDtypeValidatesItems ==
  (/\ last.op = "assert_same_float_dtype"
   /\ last.tensors # None /\ Len(last.tensors.elts) > 0
   /\ last.dtype # None)
  => LET elts == last.tensors.elts IN
     /\ (\E i \in NonNone(elts) : BaseOf(elts[i]) # last.dtype)
          => IsTypeMismatch(last.outcome)
     /\ (is_floating(last.dtype) /\ \A i \in NonNone(elts) : BaseOf(elts[i]) = last.dtype)
          => last.outcome = Return(last.dtype)

\* Items that agree with each other (two of one base dtype) were checked against
\* another dtype, and the call raised the type mismatch.
C3_Witness ==
  /\ last.op = "assert_same_float_dtype"
  /\ last.tensors # None /\ last.dtype = float32
  /\ Cardinality(NonNone(last.tensors.elts)) >= 2
  /\ \A i \in NonNone(last.tensors.elts) : BaseOf(last.tensors.elts[i]) = int32
  /\ IsTypeMismatch(last.outcome)

\* The dtype the items and the dtype argument resolve to when the items agree:
\* the argument if given, else the first non-None item's base dtype, else None.
Resolved(tensors, dtype) ==
  IF tensors = None \/ dtype # None THEN dtype
  ELSE IF NonNone(tensors.elts) = {} THEN None
  ELSE BaseOf(tensors.elts[Least(NonNone(tensors.elts))])

\* C4: assert_same_float_dtype returns a floating dtype or raises; when the
\* resolved dtype is not floating it raises the not-float ValueError naming it.
C4_NeverReturnsNonFloat ==
  (last.op = "assert_same_float_dtype") =>
    /\ last.outcome.kind \in {"return", "raise"}
    /\ last.outcome.kind = "return" =>
         (last.outcome.value \in AllDTypes /\ is_floating(last.outcome.value))
    /\ LET r == Resolved(last.tensors, last.dtype) IN
       (~IsTypeMismatch(last.outcome) /\ r # None /\ ~is_floating(r))
         => last.outcome = Raise("ValueError", NotFloatFmt, <<r>>)

\* Items whose common base dtype is an integer kind were passed without a dtype,
\* and the call raised the not-float error.
C4_Witness ==
  /\ last.op = "assert_same_float_dtype"
  /\ last.tensors # None /\ last.dtype = None
  /\ Cardinality(NonNone(last.tensors.elts)) >= 2
  /\ \A i \in NonNone(last.tensors.elts) : BaseOf(last.tensors.elts[i]) = int32
  /\ IsNotFloatType(last.outcome)

C7_NumericIffTensorOfNumericKind ==
  (last.op = "is_numeric_tensor") =>
    last.outcome =
      Return(/\ last.tensor.pytype = "Tensor"
             /\ ~last.tensor.dtype.is_ref
             /\ last.tensor.dtype.name \in
                  {"float32", "float64", "int8", "int16", "int32", "int64", "uint8",
                   "qint8", "qint32", "quint8", "complex64"})

\* A Python number, which has no dtype, was passed and false came back.
C7_Witness ==
  /\ last.op = "is_numeric_tensor"
  /\ last.tensor.pytype = "int"
  /\ last.outcome = Return(FALSE)

Running(its, expected_type) ==
  IF expected_type # None THEN expected_type ELSE BaseOf(its[Least(NonNone(its))])

Mismatching(its, expected_type) ==
  {i \in NonNone(its) : BaseOf(its[i]) # Running(its, expected_type)}

\* C9: the mismatch error of _assert_same_base_type names the earliest non-None
\* item whose base dtype differs from the running expected type, that dtype and
\* the expected one, names the item that set the expectation exactly when no
\* expected_type was given, and is the error of the items up to that one alone.
C9_FirstMismatchReported ==
  (last.op = "_assert_same_base_type" /\ IsTypeMismatch(last.outcome)) =>
    LET its == last.items
        k == Least(Mismatching(its, last.expected_type))
    IN /\ Mismatching(its, last.expected_type) # {}
       /\ last.outcome.args =
            <<DisplayName(its[k]), BaseOf(its[k]), Running(its, last.expected_type),
              IF last.expected_type = None
              THEN <<" as %s", DisplayName(its[Least(NonNone(its))])>> ELSE <<>> >>
       /\ last.outcome = _assert_same_base_type(SubSeq(its, 1, k), last.expected_type)

\* An expected_type was given, two items differ from it, and the error names the
\* earlier one and no item as the origin of the expectation.
C9_Witness ==
  /\ last.op = "_assert_same_base_type"
  /\ last.expected_type # None
  /\ IsTypeMismatch(last.outcome)
  /\ Cardinality(Mismatching(last.items, last.expected_type)) >= 2
  /\ Least(Mismatching(last.items, last.expected_type)) > 1
  /\ last.outcome.args[4] = <<>>

Validators ==
  {"is_numeric_tensor", "_assert_same_base_type", "assert_same_float_dtype",
   "assert_scalar_int"}

====
